---------------------------- MODULE Spec2Model ----------------------------
(***************************************************************************)
(* PSLE Science AI Tutor (src/app.py): the two request/response flows      *)
(* generate_quiz_question and mark_worksheet, the fence stripping and JSON *)
(* parsing they share, and the Streamlit script main() that consumes their *)
(* results, as a state machine over the session state.                     *)
(*                                                                         *)
(* Text is a sequence of symbols.  A symbol is one character (" ", "{",    *)
(* a digit, the backquote, ...) or one word ("json", "score", ...) standing *)
(* for its letters: a word never contains a backtick, a quote, white space *)
(* or JSON punctuation, so Python's substring test, split and strip act on *)
(* the symbol sequence exactly as they act on the characters.              *)
(***************************************************************************)
EXTENDS Integers, Sequences, FiniteSets, TLC

VARIABLES
    quiz_score,         \* st.session_state.quiz_score
    current_question,   \* st.session_state.current_question
    quiz_history,       \* st.session_state.quiz_history
    user_topic,         \* st.session_state.user_topic
    total_questions,    \* st.session_state.total_questions
    correct_answers,    \* st.session_state.correct_answers
    worksheet_feedback, \* st.session_state.worksheet_feedback (Absent until set)
    mode,               \* the sidebar radio
    uploaded_file,      \* the file uploader: 0 (None) or a file number
    lastAction,         \* the user action that caused the latest script run
    raw,                \* the outcome of the external call of the latest run
    result,             \* what the helper called in the latest run did
    view,               \* what the latest run rendered, and how it ended
    calls,              \* external model calls made so far
    feedback_for        \* the uploaded file worksheet_feedback was produced for

vars == <<quiz_score, current_question, quiz_history, user_topic,
          total_questions, correct_answers, worksheet_feedback, mode,
          uploaded_file, lastAction, raw, result, view, calls, feedback_for>>

-----------------------------------------------------------------------------
(* Bounds of the model. *)

\* pieces a generated response text is concatenated from
MaxPieces == 5
\* symbols in a string value of a round-trip record
MaxStrLen == 3
\* symbols in a generated score string
MaxScoreLen == 3
\* external calls in one session
MaxCalls == 2
\* Check Answer presses in one session
MaxChecks == 2
\* distinct worksheet files the user has at hand
NFiles == 2
\* symbols in the commentary before, and after, a JSON text
MaxCommentLen == 2

(* Program constants. *)

\* response_text[:500]
ExcerptLen == 500
\* st.session_state.quiz_score += 10
PointsPerCorrect == 10
\* except: marks_awarded, total_marks = 0, 2
DefaultMarks == 0
DefaultTotal == 2

-----------------------------------------------------------------------------
(* Python str operations on symbol sequences. *)

Min(a, b) == IF a <= b THEN a ELSE b

Whitespace == {" "}

\* s[from-1:] scanned for pat: the least index >= from where pat starts, 0 if none
IndexOf(s, pat, from) ==
    LET hits == {i \in from..(Len(s) - Len(pat) + 1) :
                    SubSeq(s, i, i + Len(pat) - 1) = pat}
    IN  IF hits = {} THEN 0 ELSE CHOOSE i \in hits : \A j \in hits : i <= j

\* pat in s
Contains(s, pat) == IndexOf(s, pat, 1) # 0

RECURSIVE Split(_, _)
\* s.split(sep): the pieces between the non-overlapping occurrences of sep,
\* found left to right
Split(s, sep) ==
    LET i == IndexOf(s, sep, 1)
    IN  IF i = 0 THEN <<s>>
        ELSE <<SubSeq(s, 1, i - 1)>> \o Split(SubSeq(s, i + Len(sep), Len(s)), sep)

\* s.strip()
Strip(s) ==
    LET keep == {i \in 1..Len(s) : s[i] \notin Whitespace}
    IN  IF keep = {} THEN <<>>
        ELSE SubSeq(s, CHOOSE i \in keep : \A j \in keep : i <= j,
                       CHOOSE i \in keep : \A j \in keep : i >= j)

\* s[:n]
Take(s, n) == SubSeq(s, 1, Min(n, Len(s)))

\* the backquote character
Backtick == "backtick"
\* the markers the responses are searched for
Fence == <<Backtick, Backtick, Backtick>>
JsonFence == <<Backtick, Backtick, Backtick, "json">>

-----------------------------------------------------------------------------
(* Python values, tagged by type so that any two can be compared. *)

PyNone == [t |-> "None"]
PyBool(b) == [t |-> "bool", b |-> b]
PyInt(n) == [t |-> "int", n |-> n]
PyStr(s) == [t |-> "str", s |-> s]
PyList(xs) == [t |-> "list", items |-> xs]
PyDict(f) == [t |-> "dict", d |-> f]
EmptyDict == PyDict(<<>>)

\* every value taken as true, as when the test of a value is left out
TruthyAlways(v) == TRUE

\* bool(v)
Truthy(v) ==
    CASE v.t = "None" -> FALSE
      [] v.t = "bool" -> v.b
      [] v.t = "int" -> v.n # 0
      [] v.t = "str" -> v.s # <<>>
      [] v.t = "list" -> v.items # <<>>
      [] v.t = "dict" -> DOMAIN v.d # {}
      [] OTHER -> FALSE

\* the name of a dictionary key
K(word) == <<word>>

\* k in v, for a dict v
HasKey(v, word) == K(word) \in DOMAIN v.d

\* v.get(k, default), for a dict v
Get(v, word, default) == IF HasKey(v, word) THEN v.d[K(word)] ELSE default

-----------------------------------------------------------------------------
(* json.loads. *)

DigitSyms == <<"0", "1", "2", "3", "4", "5", "6", "7", "8", "9">>
Digits == {DigitSyms[i] : i \in 1..Len(DigitSyms)}
DigitVal(c) == (CHOOSE i \in 1..Len(DigitSyms) : DigitSyms[i] = c) - 1

\* the index of the first symbol at or after i that is not white space
SkipWs(s, i) ==
    LET rest == {j \in i..Len(s) : s[j] \notin Whitespace}
    IN  IF rest = {} THEN Len(s) + 1 ELSE CHOOSE j \in rest : \A k \in rest : j <= k

ParseFail == [ok |-> FALSE, val |-> PyNone, pos |-> 0]
ParseOk(v, p) == [ok |-> TRUE, val |-> v, pos |-> p]

\* a string literal opening at s[i] = "\"": its value and the index after it
ParseString(s, i) ==
    LET j == IndexOf(s, <<"\"">>, i + 1)
    IN  IF j = 0 THEN ParseFail ELSE ParseOk(PyStr(SubSeq(s, i + 1, j - 1)), j + 1)

RECURSIVE DigitsValue(_)
\* the decimal value of a sequence of digits
DigitsValue(ds) ==
    IF ds = <<>> THEN 0
    ELSE 10 * DigitsValue(SubSeq(ds, 1, Len(ds) - 1)) + DigitVal(ds[Len(ds)])

\* the index after the run of digits that starts at i
DigitsEnd(s, i) ==
    LET stop == {j \in i..Len(s) : s[j] \notin Digits}
    IN  IF stop = {} THEN Len(s) + 1 ELSE CHOOSE j \in stop : \A k \in stop : j <= k

\* an integer literal at s[i]: -?(0|[1-9][0-9]*)
ParseNumber(s, i) ==
    LET neg == s[i] = "-"
        b == IF neg THEN i + 1 ELSE i
    IN  IF b > Len(s) \/ s[b] \notin Digits THEN ParseFail
        ELSE LET e == IF s[b] = "0" THEN b + 1 ELSE DigitsEnd(s, b)
                 n == DigitsValue(SubSeq(s, b, e - 1))
             IN  ParseOk(PyInt(IF neg THEN 0 - n ELSE n), e)

RECURSIVE ParseValue(_, _), ParseItems(_, _, _), ParseMembers(_, _, _)

\* one JSON value starting at s[i] (JSONDecoder.raw_decode / scan_once)
ParseValue(s, i) ==
    IF i > Len(s) THEN ParseFail
    ELSE CASE s[i] = "\"" -> ParseString(s, i)
           [] s[i] = "{" ->
                LET j == SkipWs(s, i + 1)
                IN  IF j <= Len(s) /\ s[j] = "}" THEN ParseOk(EmptyDict, j + 1)
                    ELSE ParseMembers(s, j, <<>>)
           [] s[i] = "[" ->
                LET j == SkipWs(s, i + 1)
                IN  IF j <= Len(s) /\ s[j] = "]" THEN ParseOk(PyList(<<>>), j + 1)
                    ELSE ParseItems(s, j, <<>>)
           [] s[i] = "null" -> ParseOk(PyNone, i + 1)
           [] s[i] = "true" -> ParseOk(PyBool(TRUE), i + 1)
           [] s[i] = "false" -> ParseOk(PyBool(FALSE), i + 1)
           [] s[i] = "-" \/ s[i] \in Digits -> ParseNumber(s, i)
           [] OTHER -> ParseFail

\* the items of an array from s[i] on, acc holding those already read (JSONArray)
ParseItems(s, i, acc) ==
    LET v == ParseValue(s, i)
    IN  IF ~v.ok THEN ParseFail
        ELSE LET j == SkipWs(s, v.pos)
                 got == Append(acc, v.val)
             IN  IF j > Len(s) THEN ParseFail
                 ELSE IF s[j] = "]" THEN ParseOk(PyList(got), j + 1)
                 ELSE IF s[j] = "," THEN ParseItems(s, SkipWs(s, j + 1), got)
                 ELSE ParseFail

\* the members of an object from s[i] on, acc holding those already read
\* (JSONObject); a repeated key keeps its last value
ParseMembers(s, i, acc) ==
    IF i > Len(s) \/ s[i] # "\"" THEN ParseFail
    ELSE LET k == ParseString(s, i)
         IN  IF ~k.ok THEN ParseFail
             ELSE LET c == SkipWs(s, k.pos)
                  IN  IF c > Len(s) \/ s[c] # ":" THEN ParseFail
                      ELSE LET v == ParseValue(s, SkipWs(s, c + 1))
                           IN  IF ~v.ok THEN ParseFail
                               ELSE LET j == SkipWs(s, v.pos)
                                        key == k.val.s
                                        got == [x \in (DOMAIN acc) \cup {key} |->
                                                  IF x = key THEN v.val ELSE acc[x]]
                                    IN  IF j > Len(s) THEN ParseFail
                                        ELSE IF s[j] = "}" THEN ParseOk(PyDict(got), j + 1)
                                        ELSE IF s[j] = ","
                                             THEN ParseMembers(s, SkipWs(s, j + 1), got)
                                        ELSE ParseFail

\* what follows the first value ignored, as JSONDecoder.raw_decode does
JsonLoadsFirstValue(s) ==
    LET v == ParseValue(s, SkipWs(s, 1))
    IN  IF v.ok THEN [ok |-> TRUE, val |-> v.val] ELSE [ok |-> FALSE, val |-> PyNone]

\* json.loads(s): [ok |-> TRUE, val |-> the value], or ok = FALSE where it
\* raises json.JSONDecodeError
JsonLoads(s) ==
    LET v == ParseValue(s, SkipWs(s, 1))
    IN  IF v.ok /\ SkipWs(s, v.pos) = Len(s) + 1 THEN [ok |-> TRUE, val |-> v.val]
        ELSE [ok |-> FALSE, val |-> PyNone]

-----------------------------------------------------------------------------
(* json.dumps with its default separators, used to write the texts a model *)
(* that follows the prompt would answer with.                              *)

RECURSIVE NatToSyms(_)
\* str(n) for n >= 0
NatToSyms(n) ==
    IF n < 10 THEN <<DigitSyms[n + 1]>>
    ELSE NatToSyms(n \div 10) \o <<DigitSyms[(n % 10) + 1]>>

RECURSIVE Serialize(_), SerializeItems(_), SerializeMembers(_, _)

\* json.dumps(v)
Serialize(v) ==
    CASE v.t = "None" -> <<"null">>
      [] v.t = "bool" -> IF v.b THEN <<"true">> ELSE <<"false">>
      [] v.t = "int" -> IF v.n < 0 THEN <<"-">> \o NatToSyms(0 - v.n) ELSE NatToSyms(v.n)
      [] v.t = "str" -> <<"\"">> \o v.s \o <<"\"">>
      [] v.t = "list" -> <<"[">> \o SerializeItems(v.items) \o <<"]">>
      [] v.t = "dict" -> <<"{">> \o SerializeMembers(v.d, DOMAIN v.d) \o <<"}">>

\* the items of a list, joined by ", "
SerializeItems(xs) ==
    IF xs = <<>> THEN <<>>
    ELSE IF Len(xs) = 1 THEN Serialize(xs[1])
    ELSE Serialize(xs[1]) \o <<",", " ">> \o SerializeItems(Tail(xs))

\* the members of a dict whose keys are ks, joined by ", "
SerializeMembers(d, ks) ==
    IF ks = {} THEN <<>>
    ELSE LET k == CHOOSE x \in ks : TRUE
             one == <<"\"">> \o k \o <<"\"", ":", " ">> \o Serialize(d[k])
         IN  IF ks = {k} THEN one
             ELSE one \o <<",", " ">> \o SerializeMembers(d, ks \ {k})

-----------------------------------------------------------------------------
(* The external call, model.generate_content(...) followed by response.text: *)
(* it answers with a text, or raises.  The handlers tell exceptions apart   *)
(* by class only: json.JSONDecodeError (and its subclasses), or any other   *)
(* Exception.                                                               *)

Responded(text) == [kind |-> "text", text |-> text, exc |-> "none"]
Raised(exc) == [kind |-> "raise", text |-> <<>>, exc |-> exc]
NoCall == [kind |-> "none", text |-> <<>>, exc |-> "none"]

ExceptionClasses == {"JSONDecodeError", "Exception"}

\* what a helper did: the handler it ended in (branch), the value it returned
\* (ret), the exception that left it (raised), the st.error messages it showed
\* (errors), whether json.loads was reached and on what text (loaded,
\* loads_arg), and the external calls it made (ncalls)
NoResult ==
    [fn |-> "none", branch |-> "none", ret |-> PyNone, raised |-> "none",
     errors |-> <<>>, loaded |-> FALSE, loads_arg |-> <<>>, ncalls |-> 0]

\* str(e) of the exception caught
ExcText(exc) == <<"<", exc, ">">>

\* the json-tagged case forgotten
QuizCleanPlainOnly(response_text) ==
    IF Contains(response_text, Fence)
    THEN Strip(Split(Split(response_text, Fence)[2], Fence)[1])
    ELSE response_text

\* generate_quiz_question, lines 141-144: the text handed to json.loads
QuizClean(response_text) ==
    IF Contains(response_text, JsonFence)
    THEN Strip(Split(Split(response_text, JsonFence)[2], Fence)[1])
    ELSE IF Contains(response_text, Fence)
    THEN Strip(Split(Split(response_text, Fence)[2], Fence)[1])
    ELSE response_text

\* the part before the opener taken, not the part after it
MarkCleanWrongPart(response_text) ==
    IF Contains(response_text, JsonFence)
    THEN Strip(Split(Split(response_text, JsonFence)[1], Fence)[1])
    ELSE IF Contains(response_text, Fence)
    THEN Strip(Split(Split(response_text, Fence)[2], Fence)[1])
    ELSE response_text

\* mark_worksheet, lines 205-208: the text handed to json.loads
MarkClean(response_text) ==
    IF Contains(response_text, JsonFence)
    THEN Strip(Split(Split(response_text, JsonFence)[2], Fence)[1])
    ELSE IF Contains(response_text, Fence)
    THEN Strip(Split(Split(response_text, Fence)[2], Fence)[1])
    ELSE response_text

\* a second attempt made after a failure
generate_quiz_question_retrying(outcome) ==
    IF outcome.kind = "raise"
    THEN [NoResult EXCEPT !.fn = "quiz", !.branch = "exception", !.ncalls = 2]
    ELSE [NoResult EXCEPT !.fn = "quiz", !.branch = "returned", !.ncalls = 1,
            !.ret = JsonLoads(QuizClean(Strip(outcome.text))).val]

\* generate_quiz_question(topic, difficulty) when the external call ends as
\* `outcome`.  A JSONDecodeError raised before line 137 has bound response_text
\* is caught by the handler of line 151, whose line 153 then reads the unbound
\* local: UnboundLocalError leaves the function.
generate_quiz_question(outcome) ==
    IF outcome.kind = "raise"
    THEN IF outcome.exc = "JSONDecodeError"
         THEN [NoResult EXCEPT !.fn = "quiz", !.branch = "json_error",
                 !.raised = "UnboundLocalError", !.ncalls = 1,
                 !.errors = <<<<"Error parsing question response: ">>
                                \o ExcText(outcome.exc)>>]
         ELSE [NoResult EXCEPT !.fn = "quiz", !.branch = "exception", !.ncalls = 1,
                 !.errors = <<<<"Error generating question: ">>
                                \o ExcText(outcome.exc)>>]
    ELSE LET response_text == QuizClean(Strip(outcome.text))
             question_data == JsonLoads(response_text)
         IN  IF question_data.ok
             THEN [NoResult EXCEPT !.fn = "quiz", !.branch = "returned", !.ncalls = 1,
                     !.ret = question_data.val,
                     !.loaded = TRUE, !.loads_arg = response_text]
             ELSE [NoResult EXCEPT !.fn = "quiz", !.branch = "json_error", !.ncalls = 1,
                     !.loaded = TRUE, !.loads_arg = response_text,
                     !.errors = << <<"Error parsing question response: ">>
                                      \o ExcText("JSONDecodeError"),
                                   <<"Response received: ">>
                                      \o Take(response_text, ExcerptLen) >>]

\* the record mark_worksheet returns from its handlers
ParseErrorRecord(response_text) ==
    PyDict((K("error") :> PyBool(TRUE))
           @@ (K("raw_response") :> PyStr(response_text))
           @@ (K("message") :> PyStr(<<"Could not parse AI response. Raw feedback: ">>
                                        \o Take(response_text, ExcerptLen))))

CallErrorRecord(exc) ==
    PyDict((K("error") :> PyBool(TRUE))
           @@ (K("message") :> PyStr(<<"Error marking worksheet: ">> \o ExcText(exc))))

\* mark_worksheet(image) when the external call ends as `outcome`; line 219
\* reads response_text as line 153 does
mark_worksheet(outcome) ==
    IF outcome.kind = "raise"
    THEN IF outcome.exc = "JSONDecodeError"
         THEN [NoResult EXCEPT !.fn = "mark", !.branch = "json_error",
                 !.raised = "UnboundLocalError", !.ncalls = 1]
         ELSE [NoResult EXCEPT !.fn = "mark", !.branch = "exception", !.ncalls = 1,
                 !.ret = CallErrorRecord(outcome.exc)]
    ELSE LET response_text == MarkClean(Strip(outcome.text))
             feedback_data == JsonLoads(response_text)
         IN  IF feedback_data.ok
             THEN [NoResult EXCEPT !.fn = "mark", !.branch = "returned", !.ncalls = 1,
                     !.ret = feedback_data.val,
                     !.loaded = TRUE, !.loads_arg = response_text]
             ELSE [NoResult EXCEPT !.fn = "mark", !.branch = "json_error", !.ncalls = 1,
                     !.ret = ParseErrorRecord(response_text),
                     !.loaded = TRUE, !.loads_arg = response_text]

-----------------------------------------------------------------------------
(* main(): what one run of the script renders from the session state. *)

Absent == [t |-> "absent"]

SmartTutor == "Smart Tutor (Quiz & Learn)"
HomeworkMarker == "Homework Marker"
Dashboard == "Student Dashboard"
Modes == {SmartTutor, HomeworkMarker, Dashboard}
Topics == {"Cycles", "Systems", "Interactions", "Energy"}
Difficulties == {"Easy", "Medium", "Hard"}
\* the values the modelled user sets the two select boxes to
TopicChoices == {"Cycles", "Energy"}
DifficultyChoices == {"Easy", "Hard"}

\* what a run rendered: the exception that ended it (crash), the st.error
\* messages, the question and the feedback on display, and the score read
\* from the feedback (scored: whether lines 375-396 ran)
BlankView ==
    [crash |-> "none", errors |-> <<>>, question |-> Absent, feedback |-> Absent,
     scored |-> FALSE, marks_awarded |-> 0, total_marks |-> 0,
     progress |-> [num |-> 0, den |-> 1]]

\* int(s) for a str s: white space around an optional sign and decimal digits
PyInt_of(s) ==
    LET t == Strip(s)
        signed == t # <<>> /\ t[1] \in {"-", "+"}
        ds == IF signed THEN Tail(t) ELSE t
    IN  IF ds = <<>> \/ \E i \in 1..Len(ds) : ds[i] \notin Digits
        THEN [ok |-> FALSE, n |-> 0]
        ELSE [ok |-> TRUE,
              n |-> IF signed /\ t[1] = "-" THEN 0 - DigitsValue(ds) ELSE DigitsValue(ds)]

\* lines 376-379: marks_awarded, total_marks = map(int, score_str.split('/')),
\* and (0, 2) on any exception: no split on a value that is not a str,
\* ValueError from int, or not exactly two parts to unpack
ParseScore(score_str) ==
    IF score_str.t # "str" THEN <<DefaultMarks, DefaultTotal>>
    ELSE LET parts == Split(score_str.s, <<"/">>)
         IN  IF Len(parts) # 2 \/ \E i \in 1..Len(parts) : ~PyInt_of(parts[i]).ok
             THEN <<DefaultMarks, DefaultTotal>>
             ELSE <<PyInt_of(parts[1]).n, PyInt_of(parts[2]).n>>

\* the division left unguarded
ProgressUnguarded(marks_awarded, total_marks) ==
    [num |-> marks_awarded, den |-> total_marks]

\* line 395: marks_awarded / total_marks if total_marks > 0 else 0, as a fraction
Progress(marks_awarded, total_marks) ==
    IF total_marks > 0 THEN [num |-> marks_awarded, den |-> total_marks]
    ELSE [num |-> 0, den |-> 1]

\* lines 367-425: the right column, given the stored feedback
RenderFeedback(feedback) ==
    IF feedback.t # "dict"
    THEN [BlankView EXCEPT !.crash = "AttributeError"]
    ELSE IF Truthy(Get(feedback, "error", PyNone))
    THEN [BlankView EXCEPT !.feedback = feedback,
            !.errors = <<Get(feedback, "message", PyStr(<<"An error occurred">>))>>]
    ELSE LET score == ParseScore(Get(feedback, "score", PyStr(<<"0", "/", "2">>)))
             progress == Progress(score[1], score[2])
             missing_keywords == Get(feedback, "missing_keywords", PyList(<<>>))
         IN  IF progress.den = 0
             THEN [BlankView EXCEPT !.crash = "ZeroDivisionError"]
             ELSE IF Truthy(missing_keywords) /\ missing_keywords.t \in {"int", "bool"}
             THEN [BlankView EXCEPT !.crash = "TypeError"]
             ELSE [BlankView EXCEPT !.feedback = feedback, !.scored = TRUE,
                     !.marks_awarded = score[1], !.total_marks = score[2],
                     !.progress = progress]

\* lines 283-297: the question on display, given the stored question
RenderQuestion(question_data) ==
    IF ~Truthy(question_data) THEN BlankView
    ELSE IF question_data.t # "dict"
    THEN [BlankView EXCEPT !.crash = "AttributeError"]
    ELSE IF Get(question_data, "options", EmptyDict).t # "dict"
    THEN [BlankView EXCEPT !.crash = "AttributeError"]
    ELSE [BlankView EXCEPT
            !.question = Get(question_data, "question", PyStr(<<"No question generated">>))]

\* the values st.radio can return for the question on display
RadioChoices(question_data) ==
    LET options == Get(question_data, "options", EmptyDict)
    IN  IF DOMAIN options.d = {} THEN {PyNone} ELSE {PyStr(k) : k \in DOMAIN options.d}

NoFile == [id |-> 0, kind |-> "none"]

\* lines 341-352: image is not None
IsImage(file) == file.kind = "image"

\* the part of main() below the buttons, for the widget and session state given
Render(m, file, question_data, feedback) ==
    CASE m = SmartTutor -> RenderQuestion(question_data)
      [] m = HomeworkMarker ->
            IF file # NoFile /\ feedback # Absent THEN RenderFeedback(feedback)
            ELSE BlankView
      [] OTHER -> BlankView

-----------------------------------------------------------------------------
(* The answers of the external model a session is run against. *)

Str(word) == PyStr(<<word>>)

\* a question as the prompt asks for it
FullQuestion ==
    PyDict((K("question") :> Str("q1"))
           @@ (K("options") :> PyDict((K("A") :> Str("x")) @@ (K("B") :> Str("y"))))
           @@ (K("correct_answer") :> Str("A"))
           @@ (K("explanation") :> Str("e")))

\* a feedback record as the prompt asks for it
FullFeedback ==
    PyDict((K("transcription") :> Str("t"))
           @@ (K("score") :> PyStr(<<"1", "/", "2">>))
           @@ (K("verdict") :> Str("Strict"))
           @@ (K("missing_keywords") :> PyList(<<Str("k")>>))
           @@ (K("feedback_text") :> Str("f"))
           @@ (K("model_answer") :> Str("m")))

\* a record with no question, no options and no correct_answer
PartialQuestion == PyDict(K("explanation") :> Str("e"))

\* the text wrapped as the models wrap it
InJsonFence(text) == JsonFence \o <<" ">> \o text \o <<" ">> \o Fence
InFence(text) == Fence \o <<" ">> \o text \o <<" ">> \o Fence

\* answers of the model: as asked for, incomplete, empty, not an object, and
\* with commentary around the object
AppTexts ==
    { InJsonFence(Serialize(FullQuestion)),
      InFence(Serialize(FullFeedback)),
      Serialize(PartialQuestion),
      Serialize(EmptyDict),
      Serialize(PyList(<<PyInt(1)>>)),
      <<"Sure!", " ">> \o Serialize(FullQuestion) }

AppOutcomes == {Responded(t) : t \in AppTexts} \cup {Raised(e) : e \in ExceptionClasses}

\* a question with no options whose correct_answer is null
NullAnswerQuestion ==
    PyDict((K("question") :> Str("q2")) @@ (K("correct_answer") :> PyNone))

\* the answers a quiz-only session is run against
QuizOutcomes == AppOutcomes \cup {Responded(Serialize(NullAnswerQuestion))}

\* the helpers' results for these outcomes
QuizResults == [o \in QuizOutcomes |-> generate_quiz_question(o)]
MarkResults == [o \in AppOutcomes |-> mark_worksheet(o)]

-----------------------------------------------------------------------------
(* The session: one action per user interaction, each a whole run of main(). *)

Init ==
    /\ quiz_score = 0
    /\ current_question = PyNone
    /\ quiz_history = <<>>
    /\ user_topic = "Cycles"
    /\ total_questions = 0
    /\ correct_answers = 0
    /\ worksheet_feedback = Absent
    /\ mode = SmartTutor
    /\ uploaded_file = NoFile
    /\ lastAction = "load"
    /\ raw = NoCall
    /\ result = NoResult
    /\ view = BlankView
    /\ calls = 0
    /\ feedback_for = NoFile

\* the sidebar radio is set to another mode
SelectMode(m) ==
    /\ m # mode
    /\ mode' = m
    /\ lastAction' = "mode"
    /\ raw' = NoCall
    /\ result' = NoResult
    /\ view' = Render(m, uploaded_file, current_question, worksheet_feedback)
    /\ UNCHANGED <<quiz_score, current_question, quiz_history, user_topic,
                   total_questions, correct_answers, worksheet_feedback,
                   uploaded_file, calls, feedback_for>>

\* lines 251-256: the topic select box is set to another topic
SelectTopic(topic) ==
    /\ mode = SmartTutor
    /\ topic # user_topic
    /\ user_topic' = topic
    /\ lastAction' = "topic"
    /\ raw' = NoCall
    /\ result' = NoResult
    /\ view' = Render(mode, uploaded_file, current_question, worksheet_feedback)
    /\ UNCHANGED <<quiz_score, current_question, quiz_history, total_questions,
                   correct_answers, worksheet_feedback, mode, uploaded_file,
                   calls, feedback_for>>

\* the held question dropped when generation fails
StoredQuestionOrNone(r, held) == r.ret

\* lines 267-269: the question held after generate_quiz_question has ended as r
StoredQuestion(r, held) == IF r.raised = "none" /\ Truthy(r.ret) THEN r.ret ELSE held

\* lines 265-274 and the display below: Generate New Question is pressed, with
\* the difficulty select box at `difficulty`
PressGenerate(difficulty, outcome) ==
    /\ mode = SmartTutor
    /\ calls < MaxCalls
    /\ \E r \in {QuizResults[outcome]} :
       LET stored == r.raised = "none" /\ Truthy(r.ret)
           appended == stored /\ r.ret.t = "dict"
       IN  /\ raw' = outcome
           /\ result' = r
           /\ calls' = calls + r.ncalls
           /\ current_question' = StoredQuestion(r, current_question)
           /\ quiz_history' =
                 IF appended
                 THEN Append(quiz_history,
                             [topic |-> user_topic, difficulty |-> difficulty,
                              question |-> Get(r.ret, "question", PyStr(<<>>))])
                 ELSE quiz_history
           /\ view' =
                 IF r.raised # "none"
                 THEN [BlankView EXCEPT !.crash = r.raised, !.errors = r.errors]
                 ELSE IF stored /\ ~appended
                 THEN [BlankView EXCEPT !.crash = "AttributeError"]
                 ELSE [RenderQuestion(current_question') EXCEPT !.errors = r.errors]
    /\ lastAction' = "generate"
    /\ UNCHANGED <<quiz_score, user_topic, total_questions, correct_answers,
                   worksheet_feedback, mode, uploaded_file, feedback_for>>

\* the press counted and scored, correct_answers left as it was
PressCheckUncounted(user_answer) ==
    /\ mode = SmartTutor
    /\ total_questions < MaxChecks
    /\ Truthy(current_question)
    /\ RenderQuestion(current_question).crash = "none"
    /\ user_answer \in RadioChoices(current_question)
    /\ total_questions' = total_questions + 1
    /\ correct_answers' = correct_answers
    /\ quiz_score' =
          IF user_answer = Get(current_question, "correct_answer", PyStr(<<>>))
          THEN quiz_score + PointsPerCorrect
          ELSE quiz_score
    /\ lastAction' = "check"
    /\ raw' = NoCall
    /\ result' = NoResult
    /\ view' = RenderQuestion(current_question)
    /\ UNCHANGED <<current_question, quiz_history, user_topic, worksheet_feedback,
                   mode, uploaded_file, calls, feedback_for>>

\* lines 299-317: Check Answer is pressed with the radio at user_answer
PressCheck(user_answer) ==
    /\ mode = SmartTutor
    /\ total_questions < MaxChecks
    /\ Truthy(current_question)
    /\ RenderQuestion(current_question).crash = "none"
    /\ user_answer \in RadioChoices(current_question)
    /\ LET correct_answer == Get(current_question, "correct_answer", PyStr(<<>>))
       IN  /\ total_questions' = total_questions + 1
           /\ correct_answers' =
                 IF user_answer = correct_answer THEN correct_answers + 1
                 ELSE correct_answers
           /\ quiz_score' =
                 IF user_answer = correct_answer THEN quiz_score + PointsPerCorrect
                 ELSE quiz_score
    /\ lastAction' = "check"
    /\ raw' = NoCall
    /\ result' = NoResult
    /\ view' = RenderQuestion(current_question)
    /\ UNCHANGED <<current_question, quiz_history, user_topic, worksheet_feedback,
                   mode, uploaded_file, calls, feedback_for>>

\* lines 328-334: the uploader is given another file, or is cleared
UploadFile(file) ==
    /\ mode = HomeworkMarker
    /\ file # uploaded_file
    /\ uploaded_file' = file
    /\ lastAction' = "upload"
    /\ raw' = NoCall
    /\ result' = NoResult
    /\ view' = Render(mode, file, current_question, worksheet_feedback)
    /\ UNCHANGED <<quiz_score, current_question, quiz_history, user_topic,
                   total_questions, correct_answers, worksheet_feedback, mode,
                   calls, feedback_for>>

\* lines 355-361 and the right column: Mark My Worksheet is pressed
PressMark(outcome) ==
    /\ mode = HomeworkMarker
    /\ IsImage(uploaded_file)
    /\ calls < MaxCalls
    /\ \E r \in {MarkResults[outcome]} :
           /\ raw' = outcome
           /\ result' = r
           /\ calls' = calls + r.ncalls
           /\ worksheet_feedback' = IF r.raised = "none" THEN r.ret ELSE worksheet_feedback
           /\ feedback_for' = IF r.raised = "none" THEN uploaded_file ELSE feedback_for
           /\ view' =
                 IF r.raised # "none" THEN [BlankView EXCEPT !.crash = r.raised]
                 ELSE RenderFeedback(r.ret)
    /\ lastAction' = "mark"
    /\ UNCHANGED <<quiz_score, current_question, quiz_history, user_topic,
                   total_questions, correct_answers, mode, uploaded_file>>

\* the files at hand: NFiles images and one PDF (type=['png', 'jpg', 'jpeg', 'pdf'])
Files == {[id |-> i, kind |-> "image"] : i \in 1..NFiles}
         \cup {[id |-> NFiles + 1, kind |-> "pdf"]}

\* the values the radio can hold when Check Answer is pressed
AnswerChoices == {PyNone} \cup {Str(k) : k \in {"A", "B"}}

Next ==
    \/ \E m \in Modes : SelectMode(m)
    \/ \E topic \in TopicChoices : SelectTopic(topic)
    \/ \E difficulty \in DifficultyChoices, outcome \in AppOutcomes :
          PressGenerate(difficulty, outcome)
    \/ \E user_answer \in AnswerChoices : PressCheck(user_answer)
    \/ \E file \in Files \cup {NoFile} : UploadFile(file)
    \/ \E outcome \in AppOutcomes : PressMark(outcome)

Spec == Init /\ [][Next]_vars

\* a session of generate and check-answer actions only
NextQuiz ==
    \/ \E difficulty \in DifficultyChoices, outcome \in QuizOutcomes :
          PressGenerate(difficulty, outcome)
    \/ \E user_answer \in AnswerChoices : PressCheck(user_answer)

SpecQuiz == Init /\ [][NextQuiz]_vars

-----------------------------------------------------------------------------
(* The helpers alone: the external call ends in any way a short text or an  *)
(* exception allows, and one helper runs on it.  Here raw is the outcome    *)
(* the call is about to have.                                               *)

Pieces == {<<Backtick>>, <<"json">>, <<"1">>, <<" ">>, <<"\"">>, Fence, JsonFence}

RECURSIVE Flatten(_)
Flatten(ps) == IF ps = <<>> THEN <<>> ELSE Head(ps) \o Flatten(Tail(ps))

\* every text made of at most MaxPieces pieces
PieceTexts == {Flatten(ps) : ps \in UNION {[1..n -> Pieces] : n \in 0..MaxPieces}}

HelperOutcomes ==
    {Responded(t) : t \in PieceTexts \cup AppTexts} \cup {Raised(e) : e \in ExceptionClasses}

SessionStart ==
    /\ quiz_score = 0
    /\ current_question = PyNone
    /\ quiz_history = <<>>
    /\ user_topic = "Cycles"
    /\ total_questions = 0
    /\ correct_answers = 0
    /\ mode = SmartTutor
    /\ lastAction = "load"
    /\ result = NoResult
    /\ view = BlankView
    /\ calls = 0

InitHelpers ==
    /\ SessionStart
    /\ worksheet_feedback = Absent
    /\ uploaded_file = NoFile
    /\ feedback_for = NoFile
    /\ raw \in HelperOutcomes

\* generate_quiz_question runs on the outcome
CallGenerate ==
    /\ result.fn = "none"
    /\ raw.kind # "none"
    /\ result' = generate_quiz_question(raw)
    /\ calls' = calls + result'.ncalls
    /\ UNCHANGED <<quiz_score, current_question, quiz_history, user_topic,
                   total_questions, correct_answers, worksheet_feedback, mode,
                   uploaded_file, lastAction, raw, view, feedback_for>>

\* mark_worksheet runs on the outcome
CallMark ==
    /\ result.fn = "none"
    /\ raw.kind # "none"
    /\ result' = mark_worksheet(raw)
    /\ calls' = calls + result'.ncalls
    /\ UNCHANGED <<quiz_score, current_question, quiz_history, user_topic,
                   total_questions, correct_answers, worksheet_feedback, mode,
                   uploaded_file, lastAction, raw, view, feedback_for>>

NextHelpers == CallGenerate \/ CallMark

SpecHelpers == InitHelpers /\ [][NextHelpers]_vars

-----------------------------------------------------------------------------
(* The helpers on serialized records: the model answers with json.dumps of  *)
(* a record, inside a json-tagged fence.                                    *)

StrSymbols == {Backtick, "a", " "}

\* the strings of at most MaxStrLen symbols
ShortStrings == UNION {[1..n -> StrSymbols] : n \in 0..MaxStrLen}

\* JSON values: scalars, strings, and lists and objects holding a string
RoundTripRecords ==
    {PyNone, PyBool(TRUE), PyInt(0), PyInt(12), PyInt(0 - 3), FullQuestion, FullFeedback,
     PyDict(K("a") :> PyInt(1))}
    \cup {PyStr(x) : x \in ShortStrings}
    \cup {PyList(<<PyStr(x)>>) : x \in ShortStrings}
    \cup {PyDict(K("question") :> PyStr(x)) : x \in ShortStrings}

\* the response that carries record R
FencedText == [R \in RoundTripRecords |-> InJsonFence(Serialize(R))]

InitRoundTrip ==
    /\ SessionStart
    /\ worksheet_feedback = Absent
    /\ uploaded_file = NoFile
    /\ feedback_for = NoFile
    /\ \E R \in RoundTripRecords : raw = Responded(FencedText[R])

SpecRoundTrip == InitRoundTrip /\ [][NextHelpers]_vars

-----------------------------------------------------------------------------
(* The helpers on a JSON text with prose around it and no fence: the model  *)
(* answers "Sure! {...}", or an object followed by prose.                   *)

CommentSymbols == {"Sure!", " ", ":"}

\* the commentaries of at most MaxCommentLen symbols, the empty one included
Commentaries == UNION {[1..n -> CommentSymbols] : n \in 0..MaxCommentLen}

\* the records the commentary is put around
CommentedRecords ==
    {PyInt(1), PyNone, EmptyDict, Str("a"), PyList(<<PyInt(1)>>),
     FullQuestion, FullFeedback}

\* has a symbol that str.strip leaves in place
IsProse(c) == \E i \in 1..Len(c) : c[i] \notin Whitespace

\* the responses made of a serialized record and commentary on either side
AllCommentedTexts ==
    {lead \o Serialize(R) \o trail :
        lead \in Commentaries, trail \in Commentaries, R \in CommentedRecords}

InitCommentary ==
    /\ SessionStart
    /\ worksheet_feedback = Absent
    /\ uploaded_file = NoFile
    /\ feedback_for = NoFile
    /\ \E text \in AllCommentedTexts : raw = Responded(text)

SpecCommentary == InitCommentary /\ [][NextHelpers]_vars

-----------------------------------------------------------------------------
(* The score display alone: a feedback record with any short score is held, *)
(* and the Homework Marker page is run on it.                               *)

ScoreSymbols == {"0", "1", "2", "/", "x", "-", " "}

ScoreValues ==
    {PyStr(x) : x \in UNION {[1..n -> ScoreSymbols] : n \in 0..MaxScoreLen}}
    \cup {PyStr(<<"two", " ", "out", " ", "of", " ", "two">>),
          PyStr(<<"1", "/", "2", "/", "2">>),
          PyInt(2), PyNone, PyList(<<PyInt(1), PyInt(2)>>), PyBool(TRUE)}

ScoreFeedbacks == {PyDict(K("score") :> v) : v \in ScoreValues} \cup {EmptyDict}

InitScore ==
    /\ SessionStart
    /\ raw = NoCall
    /\ worksheet_feedback \in ScoreFeedbacks
    /\ uploaded_file = [id |-> 1, kind |-> "image"]
    /\ feedback_for = uploaded_file

\* the user turns to the Homework Marker page: lines 363-425 run
ShowFeedback ==
    /\ mode # HomeworkMarker
    /\ SelectMode(HomeworkMarker)

SpecScore == InitScore /\ [][ShowFeedback]_vars

-----------------------------------------------------------------------------
(* Properties. *)

\* the index of the first symbol after the first occurrence of pat in text
After(text, pat) == IndexOf(text, pat, 1) + Len(pat)

\* the index where the selection that opens at start ends, as the claim words
\* it: at the first fence marker that follows, or with the text if none does
FirstFenceFrom(text, start) ==
    LET j == IndexOf(text, Fence, start)
    IN  IF j = 0 THEN Len(text) + 1 ELSE j

\* the same, as the code cuts it: at the next json-tagged opener, or at the
\* first fence marker that lies wholly before it, or with the text
FirstCutFrom(text, start) ==
    LET nxt == IndexOf(text, JsonFence, start)
        limit == IF nxt = 0 THEN Len(text) + 1 ELSE nxt
        whole == {j \in start..(limit - Len(Fence)) : SubSeq(text, j, j + Len(Fence) - 1) = Fence}
    IN  IF whole = {} THEN limit ELSE CHOOSE j \in whole : \A k \in whole : j <= k

\* the three cases of C1 on the trimmed response, read literally
SelectedAsClaimed(text) ==
    IF Contains(text, JsonFence)
    THEN Strip(SubSeq(text, After(text, JsonFence),
                      FirstFenceFrom(text, After(text, JsonFence)) - 1))
    ELSE IF Contains(text, Fence)
    THEN Strip(SubSeq(text, After(text, Fence), FirstFenceFrom(text, After(text, Fence)) - 1))
    ELSE text

\* the three cases with the first one cut as the code cuts it
SelectedAsAmended(text) ==
    IF Contains(text, JsonFence)
    THEN Strip(SubSeq(text, After(text, JsonFence),
                      FirstCutFrom(text, After(text, JsonFence)) - 1))
    ELSE IF Contains(text, Fence)
    THEN Strip(SubSeq(text, After(text, Fence), FirstFenceFrom(text, After(text, Fence)) - 1))
    ELSE text

\* a helper has run on a text the call answered with
RanOnText == result.fn # "none" /\ raw.kind = "text"

\* C1 (as stated): the text handed to json.loads is the trimmed response cut
\* by the three cases, the json-tagged one ending at the first fence marker
\* that follows the opener, and the parsed record is returned whenever that
\* selection is valid JSON.
C1_AsStated ==
    RanOnText =>
        LET selected == SelectedAsClaimed(Strip(raw.text))
        IN  /\ result.loaded /\ result.loads_arg = selected
            /\ JsonLoads(selected).ok =>
                  result.branch = "returned" /\ result.ret = JsonLoads(selected).val

\* C1 (amended): the same, with the json-tagged selection ending at the next
\* json-tagged opener, or at the first fence marker wholly before it, or with
\* the text, and the plain selection ending with the text when no second
\* marker follows.
C1_FenceCases ==
    RanOnText =>
        LET selected == SelectedAsAmended(Strip(raw.text))
        IN  /\ result.loaded /\ result.loads_arg = selected
            /\ JsonLoads(selected).ok =>
                  result.branch = "returned" /\ result.ret = JsonLoads(selected).val

\* a json-fenced record followed by a second, longer run of backticks has been
\* parsed and returned by mark_worksheet
C1_Witness ==
    /\ result.fn = "mark"
    /\ raw = Responded(JsonFence \o <<" ", "1">> \o Fence \o <<Backtick>>)
    /\ result.branch = "returned"
    /\ result.ret = PyInt(1)

\* the excerpt a helper reports after a parse failure
Excerpt ==
    IF result.fn = "quiz" THEN SubSeq(result.errors[2], 2, Len(result.errors[2]))
    ELSE SubSeq(Get(result.ret, "message", PyStr(<<>>)).s, 2,
                Len(Get(result.ret, "message", PyStr(<<>>)).s))

\* C2: whenever parsing of the extracted text fails, the error carries the
\* first 500 characters of the raw response as the model returned it (read
\* here in the claim's favour: of the response less its surrounding white
\* space, which line 137 drops before anything else).
C2_RawExcerpt ==
    (RanOnText /\ result.branch = "json_error") =>
        Excerpt = Take(Strip(raw.text), ExcerptLen)

\* C3 (as stated): every record serialized and wrapped in a json-tagged fence
\* is returned unchanged by the helpers.
C3_AsStated ==
    \A R \in RoundTripRecords :
        (result.fn # "none" /\ raw = Responded(FencedText[R])) =>
            result.branch = "returned" /\ result.ret = R

\* C3 (amended): every record whose serialized text holds no triple backtick,
\* serialized and wrapped in a json-tagged fence, is returned unchanged by the
\* helpers.
C3_RoundTrip ==
    \A R \in RoundTripRecords :
        (/\ result.fn # "none"
         /\ raw = Responded(FencedText[R])
         /\ ~Contains(Serialize(R), Fence)) =>
            result.branch = "returned" /\ result.ret = R

\* generate_quiz_question has returned an object whose string value holds
\* backticks, from its fenced serialization
C3_Witness ==
    LET R == PyDict(K("question") :> PyStr(<<Backtick, "a", Backtick>>))
    IN  /\ result.fn = "quiz"
        /\ raw = Responded(FencedText[R])
        /\ result.ret = R

\* a record mark_worksheet returns for a failure: error = true and a
\* non-empty message
ErrorShaped(v) ==
    /\ v.t = "dict"
    /\ Get(v, "error", PyNone) = PyBool(TRUE)
    /\ Get(v, "message", PyNone).t = "str"
    /\ Get(v, "message", PyNone).s # <<>>

\* C4: whenever mark_worksheet fails, because extraction fails or because the
\* external call fails, it returns, and never raises, a record with
\* error = true and a non-empty message.
C4_UniformErrorShape ==
    (result.fn = "mark" /\ result.branch # "returned") =>
        result.raised = "none" /\ ErrorShaped(result.ret)

\* C5: every exception of the call layer ends in the external-call error
\* outcome, every parse failure of a received response in the extraction error
\* outcome, and none leaves the helper.
C5_DistinctOutcomes ==
    result.fn # "none" =>
        /\ result.raised = "none"
        /\ raw.kind = "raise" => result.branch = "exception"
        /\ (raw.kind = "text" /\ ~JsonLoads(result.loads_arg).ok) =>
              result.branch = "json_error"

\* the latest run was a press of one of the two buttons that call the model
CallingAction == {"generate", "mark"}

\* C6: a press of Generate New Question or of Mark My Worksheet makes exactly
\* one external call, whether it succeeds or fails, and no other user action
\* makes any.
C6_OneCallPerPress ==
    [][/\ lastAction' \in CallingAction => (calls' = calls + 1 /\ result'.ncalls = 1)
       /\ lastAction' \notin CallingAction => (calls' = calls /\ result'.ncalls = 0)]_vars

\* two presses have been made, the later one a marking whose call raised,
\* and two calls have been counted
C6_Witness ==
    /\ calls = 2
    /\ lastAction = "mark"
    /\ result.branch = "exception"
    /\ current_question = PyNone
    /\ quiz_history = <<>>

\* the digits of a well-formed "X/Y" score, as two sequences
ScoreParts(x) == <<SubSeq(x, 1, IndexOf(x, <<"/">>, 1) - 1),
                   SubSeq(x, IndexOf(x, <<"/">>, 1) + 1, Len(x))>>

AllDigits(x) == x # <<>> /\ \A i \in 1..Len(x) : x[i] \in Digits

\* \d+/\d+
WellFormedScore(v) ==
    /\ v.t = "str"
    /\ Cardinality({i \in 1..Len(v.s) : v.s[i] = "/"}) = 1
    /\ AllDigits(ScoreParts(v.s)[1])
    /\ AllDigits(ScoreParts(v.s)[2])

\* not a string, no slash or more than one, or a part that is empty or holds
\* a letter
UnparsableScore(v) ==
    \/ v.t # "str"
    \/ Cardinality({i \in 1..Len(v.s) : v.s[i] = "/"}) # 1
    \/ \E i \in 1..2 : ScoreParts(v.s)[i] = <<>>
    \/ \E i \in 1..Len(v.s) : v.s[i] \notin Digits \cup {"/", "-", "+", " "}

\* the score value of the feedback on display
HeldScore == Get(worksheet_feedback, "score", PyStr(<<"0", "/", "2">>))

\* C7: the score parse yields (X, Y) for a well-formed "X/Y", (0, 2) for
\* every value that cannot be parsed, never ends the run with an error, and a
\* total of 0 gives progress 0 without a division.
C7_ScoreParse ==
    lastAction = "mode" =>
        /\ view.crash = "none"
        /\ view.scored
        /\ WellFormedScore(HeldScore) =>
              /\ view.marks_awarded = DigitsValue(ScoreParts(HeldScore.s)[1])
              /\ view.total_marks = DigitsValue(ScoreParts(HeldScore.s)[2])
        /\ UnparsableScore(HeldScore) =>
              view.marks_awarded = DefaultMarks /\ view.total_marks = DefaultTotal
        /\ view.total_marks = 0 => view.progress = [num |-> 0, den |-> 1]

\* the score "1/0" has been read as (1, 0) and shown with progress 0
C7_Witness ==
    /\ lastAction = "mode"
    /\ HeldScore = PyStr(<<"1", "/", "0">>)
    /\ view.marks_awarded = 1
    /\ view.total_marks = 0
    /\ view.progress.num = 0

\* C8: for every structurally valid JSON response, in either flow, the
\* consuming and display step completes and never ends in an unhandled
\* failure.
C8_DisplayCompletes ==
    (lastAction \in CallingAction /\ result.branch = "returned") => view.crash = "none"

\* C9 (as stated): after any generate action, succeeded or failed, the
\* question that was current before it is no longer the current question.
\* Stated for the actions that start from a well-formed question and end
\* without an exception, and allowing the action to store an equal record.
C9_AsStated ==
    [][(/\ lastAction' = "generate"
        /\ current_question = FullQuestion
        /\ view'.crash = "none") =>
          (current_question' # current_question \/ result'.ret = current_question)]_vars

\* C9 (amended): a generate action that returns a non-empty parsed value makes
\* that value the current question; a generate action that fails, or returns
\* an empty value, leaves the current question as it was, and on display.
C9_ReplacedOnSuccess ==
    [][lastAction' = "generate" =>
          /\ (result'.branch = "returned" /\ Truthy(result'.ret)) =>
                current_question' = result'.ret
          /\ (result'.branch # "returned" \/ ~Truthy(result'.ret)) =>
                /\ current_question' = current_question
                /\ (view'.crash = "none" /\ current_question = FullQuestion) =>
                      view'.question = Get(FullQuestion, "question", PyNone)]_vars

\* a generate action has failed to parse and the earlier question is still
\* the current one, on display
C9_Witness ==
    /\ lastAction = "generate"
    /\ result.branch = "json_error"
    /\ current_question = FullQuestion
    /\ view.question = Str("q1")

\* C10: once a different file is uploaded, and before any new mark action,
\* the feedback produced for the previously uploaded image is no longer held
\* or displayed.  Stated for a complete feedback record.
C10_ClearedOnUpload ==
    (/\ feedback_for # NoFile
     /\ uploaded_file # NoFile
     /\ uploaded_file # feedback_for) =>
        worksheet_feedback # FullFeedback /\ view.feedback # FullFeedback

\* the responses in which the serialized record has prose before or after it
CommentedTexts ==
    {lead \o Serialize(R) \o trail :
        <<lead, trail>> \in {c \in Commentaries \X Commentaries :
                                IsProse(c[1]) \/ IsProse(c[2])},
        R \in CommentedRecords}

\* C11: a response with no fence marker that is valid JSON with commentary
\* before or after it is not specially handled: json.loads is given the whole
\* trimmed text, fails, and the helper ends in the extraction error outcome
\* (None and the parse error shown, or the error record), not a parsed record.
C11_CommentaryFails ==
    (/\ result.fn # "none"
     /\ raw.kind = "text"
     /\ raw.text \in CommentedTexts
     /\ ~Contains(raw.text, Fence)) =>
        /\ result.loaded
        /\ result.loads_arg = Strip(raw.text)
        /\ result.branch = "json_error"
        /\ result.raised = "none"
        /\ result.fn = "quiz" => (result.ret = PyNone /\ Len(result.errors) = 2)
        /\ result.fn = "mark" => result.ret = ParseErrorRecord(Strip(raw.text))

\* mark_worksheet has run on an object followed by prose
C11_Witness ==
    /\ result.fn = "mark"
    /\ raw.kind = "text"
    /\ raw.text = Serialize(FullFeedback) \o <<" ", "Sure!">>
    /\ result.branch = "json_error"

\* the session state a generate action may write
QuizCounters == <<quiz_score, total_questions, correct_answers>>

\* C12: a generate action that fails, by an error of the external call or of
\* the extraction, leaves quiz_score, total_questions, correct_answers,
\* quiz_history and current_question as they were; quiz_history grows, by
\* exactly one entry at its end, and current_question is set, only in a
\* generate action whose helper returned a parsed record.
C12_FailedGenerateIsLocal ==
    [][lastAction' = "generate" =>
          /\ result'.branch # "returned" =>
                /\ QuizCounters' = QuizCounters
                /\ quiz_history' = quiz_history
                /\ current_question' = current_question
          /\ quiz_history' # quiz_history =>
                /\ result'.branch = "returned"
                /\ Len(quiz_history') = Len(quiz_history) + 1
                /\ SubSeq(quiz_history', 1, Len(quiz_history)) = quiz_history
          /\ current_question' # current_question =>
                /\ result'.branch = "returned"
                /\ current_question' = result'.ret]_vars

\* a generate action has failed in a session that holds a question, a history
\* entry and an answered question
C12_Witness ==
    /\ lastAction = "generate"
    /\ result.branch \in {"json_error", "exception"}
    /\ current_question = FullQuestion
    /\ Len(quiz_history) = 1
    /\ total_questions = 1
    /\ quiz_score = PointsPerCorrect

\* C13: in a session of generate and check-answer actions from a fresh start,
\* 0 <= correct_answers <= total_questions and quiz_score is 10 times
\* correct_answers in every state; a Check Answer press adds exactly 1 to
\* total_questions, and 1 to correct_answers exactly when the value of the
\* radio equals the question's correct_answer; no counter ever decreases.
C13_Bookkeeping ==
    /\ [](/\ 0 <= correct_answers
          /\ correct_answers <= total_questions
          /\ quiz_score = PointsPerCorrect * correct_answers)
    /\ [][/\ total_questions' >= total_questions
          /\ correct_answers' >= correct_answers
          /\ quiz_score' >= quiz_score
          /\ lastAction' = "check" =>
                /\ total_questions' = total_questions + 1
                /\ correct_answers' \in {correct_answers, correct_answers + 1}
                /\ current_question' = current_question
          /\ lastAction' # "check" => QuizCounters' = QuizCounters
          /\ \A user_answer \in AnswerChoices :
                PressCheck(user_answer) =>
                   ((correct_answers' = correct_answers + 1)
                      <=> (user_answer =
                             Get(current_question, "correct_answer", PyStr(<<>>))))]_vars

\* two presses, one with the right option and one with a wrong one
C13_Witness ==
    /\ lastAction = "check"
    /\ total_questions = 2
    /\ correct_answers = 1
    /\ quiz_score = PointsPerCorrect

=============================================================================
